---- MODULE Spec2Model ----
(***************************************************************************)
(* lps (src/src/lib.rs): Config::new() turns the command line into a       *)
(* Config; run() builds the candidate list, creates an mpsc                *)
(* channel, calls content_search() and then drains the channel in the      *)
(* reporting loop.  content_search() either sends one bare result per      *)
(* candidate itself (no content pattern) or spawns one thread per chunk    *)
(* of files.chunks(files.len() / dop).                                     *)
(*                                                                         *)
(* The state is the main thread's position in run()/content_search(), the  *)
(* channel (live Sender handles, the Receiver, the queued results), the    *)
(* spawned worker threads with their position in their chunk, and stdout.  *)
(***************************************************************************)
EXTENDS Integers, Sequences, FiniteSets, TLC

VARIABLES args, config, files, walked, pc, ret, chunks, idx, senders,
          receiver, queue, sent, workers, stdout

vars == <<args, config, files, walked, pc, ret, chunks, idx, senders,
          receiver, queue, sent, workers, stdout>>

----------------------------------------------------------------------------
(* Bounds of the model. *)

\* longest candidate list handed to content_search
MaxFiles == 5

\* largest degree of parallelism (--dop) enumerated
MaxDop == 3

----------------------------------------------------------------------------
(* Option<T>: None is the empty sequence, Some(x) the one-element sequence. *)

None == <<>>

Some(x) == <<x>>

IsNone(o) == o = None

Unwrap(o) == o[1]

Min(a, b) == IF a <= b THEN a ELSE b

----------------------------------------------------------------------------
(* The environment: paths, the file system, lines of text.                 *)
(* A line is a sequence of characters; BadLine is a line whose read fails  *)
(* (BufRead::lines yields Err for it, e.g. invalid UTF-8).                 *)

BadLine == <<"\\xFF">>

Pattern == <<"h", "i">>

\* paths whose bytes are not valid UTF-8
NonUtf8 == {"g\\xFF", "/r\\xFF"}

Roots == {"/r", "/r\\xFF"}

\* the files below the root, in directory order
PathOrder == <<"a.txt", "b.log", "c.bin", "d.txt", "g\\xFF", "h.txt">>

\* files File::open fails on
Unopenable == {"g\\xFF"}

FileLines(p) ==
    CASE p = "a.txt" -> << <<"h", "i">> >>
      [] p = "b.log" -> << <<"f", "o">>, <<"o", "h", "i">>, <<"h", "i">> >>
      [] p = "c.bin" -> << BadLine, <<"h", "i">> >>
      [] p = "d.txt" -> << <<"f", "o">> >>
      [] OTHER -> << >>

CanOpen(p) == p \notin Unopenable

LineReadOk(l) == l # BadLine

\* Path::to_str: None unless the path is valid UTF-8
ToStr(p) == IF p \in NonUtf8 THEN None ELSE Some(p)

\* Path::to_string_lossy().to_string(): invalid bytes become U+FFFD
ToStringLossy(p) ==
    CASE p = "g\\xFF" -> "g\\uFFFD"
      [] p = "/r\\xFF" -> "/r\\uFFFD"
      [] OTHER -> p

----------------------------------------------------------------------------
(* Candidate lists: the non-empty subsequences of PathOrder of length at   *)
(* most MaxFiles (each file once, in directory order).                     *)

RECURSIVE Ascending(_)
Ascending(S) ==
    IF S = {} THEN <<>>
    ELSE LET m == CHOOSE x \in S : \A y \in S : x <= y
         IN <<m>> \o Ascending(S \ {m})

PathsAt(S) == [k \in 1..Cardinality(S) |-> PathOrder[Ascending(S)[k]]]

CandidateLists ==
    {PathsAt(S) : S \in {T \in SUBSET (1..Len(PathOrder)) :
                            Cardinality(T) \in 1..MaxFiles}}

\* the filename pattern enumerated for --filename
NamePattern == <<".", "t", "x", "t">>

Configs ==
    [verbose : BOOLEAN, filename : {None, Some(NamePattern)},
     content : {None, Some(Pattern)}, dop : 0..MaxDop, root : Roots]

----------------------------------------------------------------------------
(* Config::new.  The command line (clap::ArgMatches) gives the flag        *)
(* --verbose and the optional values of --filename, --content, --dop and   *)
(* --root; a value is a sequence of characters.  The two ignore-case flags *)
(* are stored in Config and read by nothing.                               *)

Digits == <<"0", "1", "2", "3", "4", "5", "6", "7", "8", "9">>

IsDigit(c) == \E d \in 1..Len(Digits) : Digits[d] = c

DigitValue(c) == (CHOOSE d \in 1..Len(Digits) : Digits[d] = c) - 1

\* usize::to_string, for one-digit numbers
UsizeToString(n) == <<Digits[n + 1]>>

RECURSIVE DecimalValue(_)
DecimalValue(cs) ==
    IF cs = <<>> THEN 0
    ELSE 10 * DecimalValue(SubSeq(cs, 1, Len(cs) - 1))
            + DigitValue(cs[Len(cs)])

\* str::parse::<usize>: an optional "+", then one or more decimal digits;
\* None stands for Err(ParseIntError).  (No string enumerated overflows.)
ParseUsize(cs) ==
    LET ds == IF cs # <<>> /\ cs[1] = "+" THEN Tail(cs) ELSE cs
    IN IF ds # <<>> /\ \A k \in 1..Len(ds) : IsDigit(ds[k])
       THEN Some(DecimalValue(ds))
       ELSE None

\* values of --dop: every number up to MaxDop, and strings that are no number
DopValues ==
    {UsizeToString(n) : n \in 0..MaxDop}
        \cup {<<"+", "2">>, <<"-", "1">>, <<"x">>, <<>>}

\* num_cpus::get(): at least one logical CPU
CpuCounts == 1..MaxDop

\* PathBuf::is_dir
IsDir(p) == p \in Roots

\* values of --root: the directories and a path that is no directory
RootValues == Roots \cup {"/f"}

ArgMatches ==
    [verbose : BOOLEAN, filename : {None, Some(NamePattern)},
     content : {None, Some(Pattern)},
     dop : {None} \cup {Some(v) : v \in DopValues},
     root : {None} \cup {Some(v) : v \in RootValues}]

\* Config::new borrows the ArgMatches and run is given the Config alone:
\* once Config::new has returned the command line is no part of the state
NoArgs ==
    [verbose |-> FALSE, filename |-> None, content |-> None, dop |-> None,
     root |-> None]

\* the value of `config` before Config::new has returned one
NoConfig ==
    [verbose |-> FALSE, filename |-> None, content |-> None, dop |-> 0,
     root |-> ""]

----------------------------------------------------------------------------
(* find_files_by_name: creates an empty vector and returns it.             *)

find_files_by_name(cfg, path) == <<>>

(* slice::chunks(size): consecutive chunks of `size` elements, the last    *)
(* one holding the remainder.  Defined for size >= 1 (chunks(0) panics).   *)

NumChunks(n, size) == (n + size - 1) \div size

ChunksExact(s, size) ==
    [k \in 1..(Len(s) \div size) |->
        SubSeq(s, (k - 1) * size + 1, k * size)]

Chunks(s, size) ==
    [k \in 1..NumChunks(Len(s), size) |->
        SubSeq(s, (k - 1) * size + 1, Min(k * size, Len(s)))]

\* files.len() / config.dop, for dop >= 1
ChunkSize(n, dop) == n \div dop

\* content_search's branch: config.content.is_none()
ListingOnlyInverted(cfg) == ~IsNone(cfg.content)

ListingOnly(cfg) == IsNone(cfg.content)

\* the Sender moved into content_search goes out of scope when it returns
KeepSender(n) == n

DropSender(n) == n - 1

\* let (sender, receiver) = ..: the receiver is bound to a variable of run
\* and lives until run returns
ReceiverDropped == FALSE

ReceiverKept == TRUE

\* Sender::send on the unbounded channel: the value is queued behind the
\* ones sent before
EnqueueFront(q, r) == <<r>> \o q

Enqueue(q, r) == Append(q, r)

\* sender.send(..).is_err(): send fails exactly when the receiver is gone
SendSucceeded(rcv) == rcv

SendFailed(rcv) == ~rcv

\* LpsResult
LpsResult(file, lines) == [file |-> file, lines |-> lines]

\* println! lines
PathLine(file) == [kind |-> "path", text |-> file]

MatchLine(m) ==
    [kind |-> "match", line |-> m.line, column |-> m.column,
     content |-> m.content]

MatchLines(ms) == [k \in 1..Len(ms) |-> MatchLine(ms[k])]

\* the body of the reporting loop for one received result
PrintMatchesOnly(out, result) ==
    IF IsNone(result.lines)
    THEN out
    ELSE IF Unwrap(result.lines) # <<>>
         THEN out \o <<PathLine(result.file)>> \o MatchLines(Unwrap(result.lines))
         ELSE out

PrintEmptyToo(out, result) ==
    IF IsNone(result.lines)
    THEN out \o <<PathLine(result.file)>>
    ELSE out \o <<PathLine(result.file)>> \o MatchLines(Unwrap(result.lines))

PrintPathLast(out, result) ==
    IF IsNone(result.lines)
    THEN out \o <<PathLine(result.file)>>
    ELSE IF Unwrap(result.lines) # <<>>
         THEN out \o MatchLines(Unwrap(result.lines)) \o <<PathLine(result.file)>>
         ELSE out

PrintResult(out, result) ==
    IF IsNone(result.lines)
    THEN out \o <<PathLine(result.file)>>
    ELSE IF Unwrap(result.lines) # <<>>
         THEN out \o <<PathLine(result.file)>> \o MatchLines(Unwrap(result.lines))
         ELSE out

----------------------------------------------------------------------------
(* Worker threads.  fi is the index of the file of the chunk the worker is *)
(* at; li = 0 before the file is opened, li = k when line k is read next.  *)

NewWorker(chunk) == [chunk |-> chunk, fi |-> 1, li |-> 0]

Finished(w) == w.fi > Len(w.chunk)

\* File::open(file): Ok starts the line loop, Err => continue with the next
\* file (an opened file without lines ends its line loop at once)
OpenStepReturns(me) ==
    IF CanOpen(me.chunk[me.fi])
    THEN IF FileLines(me.chunk[me.fi]) # <<>>
         THEN [me EXCEPT !.li = 1]
         ELSE [me EXCEPT !.fi = me.fi + 1]
    ELSE [me EXCEPT !.fi = Len(me.chunk) + 1]

OpenStep(me) ==
    IF CanOpen(me.chunk[me.fi]) /\ FileLines(me.chunk[me.fi]) # <<>>
    THEN [me EXCEPT !.li = 1]
    ELSE [me EXCEPT !.fi = me.fi + 1]

\* one item of lines(): Ok or Err, the loop goes on with the next line, and
\* after the last line with the next file
LineStep(me) ==
    IF me.li < Len(FileLines(me.chunk[me.fi]))
    THEN [me EXCEPT !.li = me.li + 1]
    ELSE [me EXCEPT !.fi = me.fi + 1, !.li = 0]

----------------------------------------------------------------------------
Init ==
    /\ args \in ArgMatches
    /\ config = NoConfig
    /\ files = <<>>
    /\ walked = FALSE
    /\ pc = "new"
    /\ ret = "none"
    /\ chunks = <<>>
    /\ idx = 0
    /\ senders = 0
    /\ receiver = FALSE
    /\ queue = <<>>
    /\ sent = <<>>
    /\ workers = <<>>
    /\ stdout = <<>>

(* Config::new: the dop string (the --dop value, or num_cpus::get() as a   *)
(* string) is parsed as usize, a --root value must be a directory, and the *)
(* default root is env::current_dir()?, which can fail.                    *)
ConfigNew ==
    /\ pc = "new"
    /\ \E cpus \in CpuCounts, cwd \in {None} \cup {Some(r) : r \in Roots} :
          LET dopString == IF IsNone(args.dop) THEN UsizeToString(cpus)
                           ELSE Unwrap(args.dop)
              dop == ParseUsize(dopString)
              root == IF IsNone(args.root) THEN cwd
                      ELSE IF IsDir(Unwrap(args.root)) THEN args.root
                      ELSE None
          IN IF IsNone(dop) \/ IsNone(root)
             THEN /\ pc' = "rejected"
                  /\ ret' = "ConfigErr"
                  /\ config' = config
             ELSE /\ pc' = "run"
                  /\ ret' = ret
                  /\ config' = [verbose |-> args.verbose,
                                filename |-> args.filename,
                                content |-> args.content,
                                dop |-> Unwrap(dop),
                                root |-> Unwrap(root)]
    /\ args' = NoArgs
    /\ UNCHANGED <<files, walked, chunks, idx, senders, receiver, queue,
                   sent, workers, stdout>>

(* run, the verbose preamble *)
Verbose ==
    /\ pc = "run"
    /\ IF config.verbose
       THEN IF IsNone(ToStr(config.root))
            THEN /\ pc' = "done"
                 /\ ret' = "Err"
                 /\ stdout' = stdout
            ELSE /\ pc' = "find"
                 /\ ret' = ret
                 /\ stdout' = stdout \o
                       <<[kind |-> "workdir", text |-> Unwrap(ToStr(config.root))],
                         [kind |-> "dop", dop |-> config.dop]>>
       ELSE /\ pc' = "find"
            /\ ret' = ret
            /\ stdout' = stdout
    /\ UNCHANGED <<args, config, files, walked, chunks, idx, senders, receiver,
                   queue, sent, workers>>

(* let files = find_files_by_name(&config, &config.root) *)
FindFilesByName ==
    /\ pc = "find"
    /\ files' = find_files_by_name(config, config.root)
    /\ walked' = TRUE
    /\ pc' = "channel"
    /\ UNCHANGED <<args, config, ret, chunks, idx, senders, receiver, queue, sent,
                   workers, stdout>>

(* content_search's parameter `files` as an input: any candidate list.     *)
(* find_files_by_name as written only ever yields the empty list, so the   *)
(* lists of positive length are enumerated here.                           *)
SupplyCandidates ==
    /\ pc = "find"
    /\ \E fs \in CandidateLists : files' = fs
    /\ walked' = FALSE
    /\ pc' = "channel"
    /\ UNCHANGED <<args, config, ret, chunks, idx, senders, receiver, queue, sent,
                   workers, stdout>>

(* let (sender, receiver) = mpsc::channel::<LpsResult>() *)
CreateChannel ==
    /\ pc = "channel"
    /\ senders' = 1
    /\ receiver' = ReceiverKept
    /\ queue' = <<>>
    /\ pc' = "cs_enter"
    /\ UNCHANGED <<args, config, files, walked, ret, chunks, idx, sent, workers,
                   stdout>>

(* content_search: the branch, and files.chunks(files.len() / config.dop). *)
(* Division by a dop of 0 panics; so does chunks(0).  The unwinding drops  *)
(* the sender and the receiver.                                            *)
ContentSearchEnter ==
    /\ pc = "cs_enter"
    /\ IF ListingOnly(config)
       THEN /\ pc' = "cs_list"
            /\ idx' = 1
            /\ UNCHANGED <<chunks, senders, receiver>>
       ELSE IF config.dop = 0 \/ ChunkSize(Len(files), config.dop) = 0
            THEN /\ pc' = "panicked"
                 /\ senders' = DropSender(senders)
                 /\ receiver' = FALSE
                 /\ UNCHANGED <<chunks, idx>>
            ELSE /\ pc' = "cs_spawn"
                 /\ chunks' = Chunks(files, ChunkSize(Len(files), config.dop))
                 /\ idx' = 1
                 /\ UNCHANGED <<senders, receiver>>
    /\ UNCHANGED <<args, config, files, walked, ret, queue, sent, workers, stdout>>

(* the listing loop: one send per candidate, break when a send fails *)
ListSend ==
    /\ pc = "cs_list"
    /\ IF idx <= Len(files)
       THEN /\ IF receiver
               THEN /\ queue' = Enqueue(queue,
                           LpsResult(ToStringLossy(files[idx]), None))
                    /\ sent' = Append(sent,
                           LpsResult(ToStringLossy(files[idx]), None))
               ELSE UNCHANGED <<queue, sent>>
            /\ IF SendFailed(receiver)
               THEN pc' = "cs_return" /\ idx' = idx
               ELSE pc' = pc /\ idx' = idx + 1
       ELSE /\ pc' = "cs_return"
            /\ UNCHANGED <<queue, sent, idx>>
    /\ UNCHANGED <<args, config, files, walked, ret, chunks, senders, receiver,
                   workers, stdout>>

(* the chunk loop: chunk.to_vec() and thread::spawn for the next chunk *)
Spawn ==
    /\ pc = "cs_spawn"
    /\ IF idx <= Len(chunks)
       THEN /\ workers' = Append(workers, NewWorker(chunks[idx]))
            /\ idx' = idx + 1
            /\ pc' = pc
       ELSE /\ pc' = "cs_return"
            /\ UNCHANGED <<workers, idx>>
    /\ UNCHANGED <<args, config, files, walked, ret, chunks, senders, receiver,
                   queue, sent, stdout>>

(* content_search returns: its `sender` parameter is dropped *)
ContentSearchReturn ==
    /\ pc = "cs_return"
    /\ senders' = DropSender(senders)
    /\ pc' = "loop"
    /\ UNCHANGED <<args, config, files, walked, ret, chunks, idx, receiver, queue,
                   sent, workers, stdout>>

(* the reporting loop: receiver.recv() yields the next queued result,      *)
(* fails once the queue is empty and no Sender is left, and blocks         *)
(* otherwise.                                                              *)
RecvResult ==
    /\ pc = "loop"
    /\ queue # <<>>
    /\ stdout' = PrintResult(stdout, Head(queue))
    /\ queue' = Tail(queue)
    /\ UNCHANGED <<args, config, files, walked, pc, ret, chunks, idx, senders,
                   receiver, sent, workers>>

RecvDisconnected ==
    /\ pc = "loop"
    /\ queue = <<>>
    /\ senders = 0
    /\ pc' = "done"
    /\ ret' = "Ok"
    /\ receiver' = FALSE
    /\ UNCHANGED <<args, config, files, walked, chunks, idx, senders, queue, sent,
                   workers, stdout>>

(* a worker: File::open(file), on failure `continue` with the next file *)
WorkerOpen(w) ==
    /\ w \in 1..Len(workers)
    /\ ~Finished(workers[w])
    /\ workers[w].li = 0
    /\ workers' = [workers EXCEPT ![w] = OpenStep(workers[w])]
    /\ UNCHANGED <<args, config, files, walked, pc, ret, chunks, idx, senders,
                   receiver, queue, sent, stdout>>

(* a worker: the next line of BufReader::lines(); an Err line is skipped   *)
(* with `continue`, an Ok line is bound and dropped.  After the last line  *)
(* the worker goes on to the next file of its chunk.                       *)
WorkerReadLine(w) ==
    /\ w \in 1..Len(workers)
    /\ ~Finished(workers[w])
    /\ workers[w].li >= 1
    /\ workers' = [workers EXCEPT ![w] = LineStep(workers[w])]
    /\ UNCHANGED <<args, config, files, walked, pc, ret, chunks, idx, senders,
                   receiver, queue, sent, stdout>>

MainNext ==
    \/ ConfigNew
    \/ Verbose
    \/ FindFilesByName
    \/ SupplyCandidates
    \/ CreateChannel
    \/ ContentSearchEnter
    \/ ListSend
    \/ Spawn
    \/ ContentSearchReturn
    \/ RecvResult
    \/ RecvDisconnected

(* The JoinHandle of a spawned thread is dropped: the workers are detached *)
(* and run on their own, also after content_search and run have returned. *)
WorkerNext == \E w \in 1..Len(workers) : WorkerOpen(w) \/ WorkerReadLine(w)

Next == MainNext \/ WorkerNext

Spec == Init /\ [][Next]_vars

(* The main thread and every worker are OS threads: each keeps running.    *)
FairSpec == Spec /\ WF_vars(MainNext) /\ WF_vars(WorkerNext)

----------------------------------------------------------------------------
(* content_search on its own: called with a Config, a candidate list and   *)
(* the Sender of a channel whose Receiver is alive or already dropped.     *)
(* pc = "loop" stands for "returned to the caller".                        *)

SearchConfigs ==
    {c \in Configs : ~c.verbose /\ IsNone(c.filename) /\ c.root = "/r"}

InitSearch ==
    /\ args = NoArgs
    /\ config \in SearchConfigs
    /\ files \in CandidateLists \cup {<<>>}
    /\ walked = FALSE
    /\ pc = "cs_enter"
    /\ ret = "none"
    /\ chunks = <<>>
    /\ idx = 0
    /\ senders = 1
    /\ receiver \in BOOLEAN
    /\ queue = <<>>
    /\ sent = <<>>
    /\ workers = <<>>
    /\ stdout = <<>>

NextSearch ==
    \/ ContentSearchEnter
    \/ ListSend
    \/ Spawn
    \/ ContentSearchReturn
    \/ WorkerNext

SpecSearch == InitSearch /\ [][NextSearch]_vars

----------------------------------------------------------------------------
(* What the claims speak about.                                            *)

ContentPresent == ~IsNone(config.content)

\* content_search has returned to run
Returned == pc = "loop" \/ (pc = "done" /\ ret = "Ok")

\* 1-based column of the first occurrence of pat in line, 0 when absent
FindColumn(line, pat) ==
    LET at == {c \in 1..(Len(line) - Len(pat) + 1) :
                  SubSeq(line, c, c + Len(pat) - 1) = pat}
    IN IF at = {} THEN 0 ELSE CHOOSE c \in at : \A d \in at : c <= d

\* the numbers of the lines of file p that contain pat
MatchingLineNumbers(p, pat) ==
    {k \in 1..Len(FileLines(p)) :
        LineReadOk(FileLines(p)[k]) /\ FindColumn(FileLines(p)[k], pat) > 0}

\* the matches a scan of file p for pat is specified to record
ExpectedMatches(p, pat) ==
    LET ks == Ascending(MatchingLineNumbers(p, pat))
    IN [n \in 1..Len(ks) |->
           [line |-> ks[n],
            column |-> FindColumn(FileLines(p)[ks[n]], pat),
            content |-> FileLines(p)[ks[n]]]]

HasMatch(p) == CanOpen(p) /\ ExpectedMatches(p, Pattern) # <<>>

\* block appears in out as consecutive lines
PrintedBlock(out, block) ==
    \E k \in 0..(Len(out) - Len(block)) :
        SubSeq(out, k + 1, k + Len(block)) = block

\* the lines --verbose prints before the search
Header ==
    IF config.verbose
    THEN <<[kind |-> "workdir", text |-> config.root],
           [kind |-> "dop", dop |-> config.dop]>>
    ELSE <<>>

\* one bare path line per candidate, in the order of the list
Listing == [i \in 1..Len(files) |-> PathLine(ToStringLossy(files[i]))]

RECURSIVE Flatten(_)
Flatten(ss) == IF ss = <<>> THEN <<>> ELSE Head(ss) \o Flatten(Tail(ss))

WorkerChunks == [w \in 1..Len(workers) |-> workers[w].chunk]

\* worker w is past file j of its chunk
Scanned(w, j) == j < workers[w].fi

----------------------------------------------------------------------------
(* C1: with a content pattern, once recv has reported end-of-stream and    *)
(* the reporting loop has exited, every spawned worker has finished its    *)
(* chunk.  The code drops the only Sender when content_search returns, so  *)
(* the loop exits while workers are still scanning.                        *)
C1_LoopExitAfterWorkers ==
    (ContentPresent /\ pc = "done" /\ ret = "Ok")
        => \A w \in 1..Len(workers) : Finished(workers[w])

(* C2: once content_search has returned, the reporting loop eventually     *)
(* sees "no more senders" and run returns Ok(()), on either path and       *)
(* whatever the workers do.                                                *)
C2_LoopTerminates == (pc = "loop") ~> (pc = "done" /\ ret = "Ok")

\* run has returned Ok on the content path while a worker that skipped an
\* unopenable file is still inside its chunk
C2_Witness ==
    /\ ContentPresent
    /\ pc = "done" /\ ret = "Ok"
    /\ \E w \in 1..Len(workers) :
          /\ ~Finished(workers[w])
          /\ \E j \in 1..Len(workers[w].chunk) :
                Scanned(w, j) /\ ~CanOpen(workers[w].chunk[j])

(* C3: with a content pattern, for every candidate that can be opened and  *)
(* has a matching line, the worker that has scanned it has sent exactly    *)
(* one result for it, carrying all its matches, and when run has returned  *)
(* its path and match lines have been printed.  The workers hold no Sender *)
(* and send nothing.                                                       *)
C3_MatchingFileReported ==
    ContentPresent
        => /\ \A w \in 1..Len(workers) : \A j \in 1..Len(workers[w].chunk) :
                 (Scanned(w, j) /\ HasMatch(workers[w].chunk[j]))
                    => Cardinality({k \in 1..Len(sent) : sent[k].file
                           = ToStringLossy(workers[w].chunk[j])}) = 1
           /\ (pc = "done" /\ ret = "Ok")
                 => \A i \in 1..Len(files) :
                       HasMatch(files[i])
                          => PrintedBlock(stdout,
                                <<PathLine(ToStringLossy(files[i]))>>
                                \o MatchLines(ExpectedMatches(files[i], Pattern)))

(* C4: with a content pattern and W >= 1, content_search makes exactly     *)
(* min(W, N) chunks and spawns one worker per chunk, hence at most W       *)
(* workers.  chunks(N / W) makes ceil(N / floor(N / W)) chunks.            *)
C4_MinChunks ==
    (ContentPresent /\ config.dop >= 1)
        => /\ Len(workers) <= config.dop
           /\ Returned => Len(workers) = Min(config.dop, Len(files))

(* C5: for N >= W >= 1 every chunk handed to a worker is non-empty and the *)
(* chunks, in order, make up the candidate list: each candidate is in      *)
(* exactly one chunk.                                                      *)
C5_ChunksPartition ==
    (ContentPresent /\ Returned /\ config.dop >= 1
        /\ Len(files) >= config.dop)
        => /\ \A w \in 1..Len(workers) : workers[w].chunk # <<>>
           /\ Flatten(WorkerChunks) = files
           /\ \A i \in 1..Len(files) :
                 Cardinality({wj \in (1..Len(workers)) \X (1..Len(files)) :
                     /\ wj[2] <= Len(workers[wj[1]].chunk)
                     /\ workers[wj[1]].chunk[wj[2]] = files[i]}) = 1

\* five candidates on two threads: chunks of 2, 2 and the remainder 1
C5_Witness ==
    /\ ContentPresent /\ Returned
    /\ Len(files) = 5 /\ config.dop = 2
    /\ Len(workers) = 3
    /\ Len(workers[3].chunk) = 1

(* C6: with a content pattern and N < W (N = 0 included) content_search    *)
(* does not panic and spawns no thread for an empty chunk; with N = 0 run  *)
(* returns Ok(()) having printed nothing.  N / W is 0 there and chunks(0)  *)
(* panics.                                                                 *)
C6_FewCandidatesNoPanic ==
    (ContentPresent /\ pc \notin {"run", "find", "channel"}
        /\ ~(pc = "done" /\ ret = "Err") /\ Len(files) < config.dop)
        => /\ pc # "panicked"
           /\ \A w \in 1..Len(workers) : workers[w].chunk # <<>>
           /\ (pc = "done" /\ Len(files) = 0)
                 => (ret = "Ok" /\ stdout = Header)

(* C7 as stated: without a content pattern, when run has returned Ok it    *)
(* has printed exactly N lines, the bare path of each candidate once.      *)
C7_ExactlyNLines ==
    (~ContentPresent /\ pc = "done" /\ ret = "Ok")
        => stdout = Listing

(* C7 as amended: without a content pattern, run returns Err only in the   *)
(* verbose preamble (root not valid UTF-8); otherwise it returns Ok        *)
(* having printed, after the two lines --verbose adds, exactly N lines,    *)
(* the bare path of each candidate once, every result sent having been     *)
(* received.                                                               *)
C7_ListingAfterHeader ==
    (~ContentPresent /\ pc = "done")
        => IF config.verbose /\ IsNone(ToStr(config.root))
           THEN ret = "Err" /\ stdout = <<>>
           ELSE /\ ret = "Ok"
                /\ stdout = Header \o Listing
                /\ Len(sent) = Len(files)
                /\ queue = <<>>

C7_Witness ==
    /\ ~ContentPresent /\ pc = "done" /\ ret = "Ok"
    /\ config.verbose
    /\ Len(files) = 3
    /\ Len(stdout) = 5

(* C8: without a content pattern content_search spawns no worker thread,   *)
(* whatever the candidates and the degree of parallelism: every result is  *)
(* sent from the listing loop of the calling thread.                       *)
C8_ListingSpawnsNothing ==
    ~ContentPresent
        => /\ workers = <<>>
           /\ chunks = <<>>
           /\ pc # "cs_spawn"
           /\ pc = "cs_list" => Len(sent) = idx - 1

C8_Witness ==
    /\ ~ContentPresent /\ pc = "done" /\ ret = "Ok"
    /\ Len(files) >= 2 /\ config.dop >= 2
    /\ Len(sent) = Len(files)

(* C9: with a content pattern, a candidate without a matching line gets no *)
(* output: no result is sent for it, no line of stdout names it, and the   *)
(* reporting loop prints nothing for a result whose match list is empty.   *)
C9_NoMatchNoOutput ==
    ContentPresent
        => \A i \in 1..Len(files) :
              ~HasMatch(files[i])
                 => /\ \A k \in 1..Len(sent) :
                          sent[k].file # ToStringLossy(files[i])
                    /\ \A k \in 1..Len(stdout) :
                          stdout[k].kind = "path"
                             => stdout[k].text # ToStringLossy(files[i])
                    /\ PrintResult(stdout,
                          LpsResult(ToStringLossy(files[i]), Some(<<>>)))
                         = stdout

\* run has returned and a worker has scanned d.txt, which has no match
C9_Witness ==
    /\ ContentPresent /\ pc = "done" /\ ret = "Ok"
    /\ \E w \in 1..Len(workers) : \E j \in 1..Len(workers[w].chunk) :
          /\ Scanned(w, j)
          /\ workers[w].chunk[j] = "d.txt"

(* C10: for every file a worker has scanned for the content pattern, the   *)
(* file's result holds exactly the lines that contain the pattern,         *)
(* numbered from 1, in ascending order.  The scan loop binds each line and *)
(* drops it: no match is recorded and no result is built.                  *)
C10_MatchesAreMatchingLines ==
    ContentPresent
        => \A w \in 1..Len(workers) : \A j \in 1..Len(workers[w].chunk) :
              (Scanned(w, j) /\ HasMatch(workers[w].chunk[j]))
                 => \E k \in 1..Len(sent) :
                       /\ sent[k].file = ToStringLossy(workers[w].chunk[j])
                       /\ ~IsNone(sent[k].lines)
                       /\ Unwrap(sent[k].lines)
                            = ExpectedMatches(workers[w].chunk[j], Pattern)

----------------------------------------------------------------------------
\* the header lines printed so far
HeaderPrinted ==
    IF pc \in {"new", "run"} \/ (pc = "done" /\ ret = "Err")
    THEN <<>> ELSE Header

\* the output block of a result: its path line, then its match lines in the
\* order the result stores them (nothing for an empty match list)
Block(r) ==
    IF IsNone(r.lines) THEN <<PathLine(r.file)>>
    ELSE IF Unwrap(r.lines) = <<>> THEN <<>>
    ELSE <<PathLine(r.file)>> \o MatchLines(Unwrap(r.lines))

\* the results recv has handed to the reporting loop, in order
Received == SubSeq(sent, 1, Len(sent) - Len(queue))

(* C11: the block of a received result is printed contiguously.  stdout is *)
(* always the header followed by the whole blocks of the results received  *)
(* so far, one after the other, and the loop body appends the block of a   *)
(* result with matches (path line, then the match lines as stored) in one  *)
(* piece.  Only the main thread prints.                                    *)
C11_BlocksContiguous ==
    /\ stdout = HeaderPrinted
                  \o Flatten([k \in 1..Len(Received) |-> Block(Received[k])])
    /\ \A i \in 1..Len(files) :
          HasMatch(files[i])
             => LET r == LpsResult(ToStringLossy(files[i]),
                             Some(ExpectedMatches(files[i], Pattern)))
                IN PrintResult(stdout, r) = stdout \o Block(r)

\* the loop is in the middle of draining: two blocks printed, one queued
C11_Witness ==
    /\ pc = "loop"
    /\ Len(Received) = 2 /\ Len(queue) = 1
    /\ Len(stdout) = Len(HeaderPrinted) + 2
    /\ \E i \in 1..Len(files) : files[i] = "b.log"

----------------------------------------------------------------------------
(* C12: every Config returned by Config::new has a degree of parallelism   *)
(* of at least 1, so content_search never runs with dop = 0.  parse::<usize> *)
(* accepts "0" and Config::new does not test the number.                   *)
C12_DopAtLeastOne ==
    pc \notin {"new", "rejected"} => config.dop >= 1

----------------------------------------------------------------------------
\* the regular files reachable below a root directory
FilesUnder(root) == {PathOrder[k] : k \in 1..Len(PathOrder)}

\* the characters of a file's name
FileName(p) ==
    CASE p = "a.txt" -> <<"a", ".", "t", "x", "t">>
      [] p = "b.log" -> <<"b", ".", "l", "o", "g">>
      [] p = "c.bin" -> <<"c", ".", "b", "i", "n">>
      [] p = "d.txt" -> <<"d", ".", "t", "x", "t">>
      [] p = "h.txt" -> <<"h", ".", "t", "x", "t">>
      [] OTHER -> <<"g", "\\xFF">>

\* the name filter: every name without a pattern, else the names that
\* contain the pattern
NameMatches(p, cfg) ==
    IsNone(cfg.filename) \/ FindColumn(FileName(p), Unwrap(cfg.filename)) > 0

(* C13: find_files_by_name returns exactly the regular files below root    *)
(* whose name contains the filename pattern (all of them without a         *)
(* pattern), each once.  The function creates an empty vector and returns  *)
(* it.                                                                     *)
C13_WalkerFindsMatchingFiles ==
    walked
        => /\ {files[i] : i \in 1..Len(files)}
                = {p \in FilesUnder(config.root) : NameMatches(p, config)}
           /\ \A i, j \in 1..Len(files) : i # j => files[i] # files[j]

----------------------------------------------------------------------------
\* the file worker w is at
CurrentFile(w) == workers[w].chunk[workers[w].fi]

(* C14: a worker whose File::open fails skips that file and goes on with   *)
(* the next file of its chunk, and a line whose read fails is skipped      *)
(* while the scan goes on with the next line of the same file; the step    *)
(* ends neither the worker nor the run.                                    *)
C14_FailuresSkipped ==
    [][\A w \in 1..Len(workers) :
          (~Finished(workers[w]) /\ workers'[w] # workers[w])
             => /\ (workers[w].li = 0 /\ ~CanOpen(CurrentFile(w)))
                      => workers'[w] =
                            [workers[w] EXCEPT !.fi = workers[w].fi + 1]
                /\ (/\ workers[w].li >= 1
                    /\ ~LineReadOk(FileLines(CurrentFile(w))[workers[w].li])
                    /\ workers[w].li < Len(FileLines(CurrentFile(w))))
                      => workers'[w] =
                            [workers[w] EXCEPT !.li = workers[w].li + 1]
                /\ pc' = pc /\ ret' = ret
                /\ Len(workers') = Len(workers)]_vars

\* one worker reads the line after the unreadable first line of c.bin,
\* another is at the file that follows the unopenable one in its chunk
C14_Witness ==
    /\ \E w \in 1..Len(workers) :
          /\ ~Finished(workers[w])
          /\ CurrentFile(w) = "c.bin" /\ workers[w].li = 2
    /\ \E w \in 1..Len(workers) :
          /\ ~Finished(workers[w])
          /\ workers[w].fi = 2
          /\ ~CanOpen(workers[w].chunk[1])

----------------------------------------------------------------------------
(* C15: when the receiver is already gone, a send by the listing loop      *)
(* fails without a panic or an error: nothing is queued, the loop stops at *)
(* the first candidate and makes no send for the remaining ones, and       *)
(* content_search returns normally.                                        *)
C15_SendFailureIsSilent ==
    (~ContentPresent /\ ~receiver /\ pc \in {"cs_list", "cs_return", "loop"})
        => /\ ret = "none"
           /\ sent = <<>> /\ queue = <<>>
           /\ idx = 1
           /\ workers = <<>>

\* content_search has returned after its first send of three failed
C15_Witness ==
    /\ ~ContentPresent /\ ~receiver
    /\ pc = "loop"
    /\ Len(files) = 3
    /\ idx = 1

----------------------------------------------------------------------------
\* the path lines of stdout, without the header
PathsPrinted == SubSeq(stdout, Len(HeaderPrinted) + 1, Len(stdout))

(* C16: without a content pattern the paths are printed in the order of    *)
(* the candidate list: what has been printed is always the first lines of  *)
(* the listing, and the results still queued are the next candidates in    *)
(* order.                                                                  *)
C16_ListingInOrder ==
    (~ContentPresent /\ pc \in {"cs_list", "cs_return", "loop", "done"}
        /\ ret # "Err")
        => /\ Len(PathsPrinted) + Len(queue) <= Len(files)
           /\ PathsPrinted = SubSeq(Listing, 1, Len(PathsPrinted))
           /\ \A k \in 1..Len(queue) :
                 queue[k].file = ToStringLossy(files[Len(PathsPrinted) + k])

\* two of three paths printed, the third still queued
C16_Witness ==
    /\ ~ContentPresent /\ pc = "loop"
    /\ Len(files) = 3
    /\ Len(PathsPrinted) = 2 /\ Len(queue) = 1

(* C17: without a content pattern no send fails.  The receiver is alive    *)
(* for the whole of content_search, every send is queued at once           *)
(* (unbounded channel), the listing loop never leaves by its send-error    *)
(* branch, and all N results have been sent before the first recv.         *)
C17_ListingSendsAllFirst ==
    ~ContentPresent
        => /\ pc \in {"cs_enter", "cs_list", "cs_return"}
                 => (receiver /\ PathsPrinted = <<>>)
           /\ pc = "cs_list" => (Len(sent) = idx - 1 /\ queue = sent)
           /\ pc = "cs_return" => idx = Len(files) + 1
           /\ pc = "loop" => Len(sent) = Len(files)

\* the loop is about to make its first recv with all five results queued
C17_Witness ==
    /\ ~ContentPresent /\ pc = "loop"
    /\ Len(files) = 5
    /\ Len(queue) = 5 /\ PathsPrinted = <<>>

====
